---- MODULE Spec2Model ----
(***************************************************************************)
(* midi2osc: the JACK MIDI -> OSC bridge of main.go (the JACK variant,     *)
(* lines 209-422).  The realtime callback process() hands matched          *)
(* Control-Change events to a sender goroutine over the buffered channel   *)
(* eventChan, and a printable copy of every raw event to the channel ch.   *)
(*                                                                         *)
(* Strings that the code inspects (the OSC target) are sequences of        *)
(* one-character strings, so that HasPrefix / TrimPrefix / Split are       *)
(* computed and not assumed.                                               *)
(***************************************************************************)
EXTENDS Integers, Sequences, FiniteSets, TLC

(* ------------------------------------------------------------------ *)
(* Bounds of the model.  Both channels are made with capacity 64 in    *)
(* the code (main.go:381-382); the model scales the capacity down.     *)
(* ------------------------------------------------------------------ *)
EventChanCap == 2
ChCap == 1
MaxEvents == 2

(* ------------------------------------------------------------------ *)
(* Program constants                                                   *)
(* ------------------------------------------------------------------ *)
CCStatus == 176

(* ------------------------------------------------------------------ *)
(* Go values                                                           *)
(* ------------------------------------------------------------------ *)
\* A value of type interface{} as yaml.Unmarshal leaves it: its dynamic
\* type and its value.
GoInt(n) == [kind |-> "int", v |-> n]
GoFloat64(n) == [kind |-> "float64", v |-> n]
GoString(n) == [kind |-> "string", v |-> n]
GoBool(n) == [kind |-> "bool", v |-> n]
NoArg == [kind |-> "none", v |-> 0]

\* int32(x) of an int x: the integers of the model all lie within 32 bits,
\* where the conversion keeps the value and changes the type.
Int32(n) == [kind |-> "int32", v |-> n]
\* float32(x) of a float64 x.
Float32(n) == [kind |-> "float32", v |-> n]

OSCAction(path, type, value) == [Path |-> path, Type |-> type, Value |-> value]
Mapping(cc, value, actions) == [CC |-> cc, Value |-> value, Actions |-> actions]
Config(target, mappings) == [OscTarget |-> target, Mappings |-> mappings]

(* ------------------------------------------------------------------ *)
(* strings                                                             *)
(* ------------------------------------------------------------------ *)
OscTcpPrefix == <<"o", "s", "c", ".", "t", "c", "p", ":", "/", "/">>

HasPrefix(s, prefix) ==
    /\ Len(s) >= Len(prefix)
    /\ SubSeq(s, 1, Len(prefix)) = prefix

TrimPrefix(s, prefix) ==
    IF HasPrefix(s, prefix) THEN SubSeq(s, Len(prefix) + 1, Len(s)) ELSE s

\* strings.Split(s, sep) for a one-character separator: the pieces between
\* the separators, empty pieces included.
RECURSIVE SplitFrom(_, _, _)
SplitFrom(s, sep, cur) ==
    IF s = <<>> THEN <<cur>>
    ELSE IF Head(s) = sep THEN <<cur>> \o SplitFrom(Tail(s), sep, <<>>)
    ELSE SplitFrom(Tail(s), sep, Append(cur, Head(s)))

Split(s, sep) == SplitFrom(s, sep, <<>>)

Digits == <<"0", "1", "2", "3", "4", "5", "6", "7", "8", "9">>

IsDigit(c) == \E d \in 1..10 : Digits[d] = c

DigitVal(c) == (CHOOSE d \in 1..10 : Digits[d] = c) - 1

\* fmt.Sscanf(s, "%d", &i): the leading decimal digits of s; i stays 0
\* when s does not start with a digit.
RECURSIVE ScanDigits(_, _)
ScanDigits(s, acc) ==
    IF s = <<>> \/ ~IsDigit(Head(s)) THEN acc
    ELSE ScanDigits(Tail(s), acc * 10 + DigitVal(Head(s)))

atoi(s) == ScanDigits(s, 0)

(* ------------------------------------------------------------------ *)
(* sendOSC                                                             *)
(* ------------------------------------------------------------------ *)
\* The outcome of one call of sendOSC: it panics (a failed type assertion
\* val.(T)), or returns err ("nil" on success).  host, port and arg are
\* what was handed to the OSC client when the call got that far.
Sent(err, panics, parts, arg) ==
    [err |-> err, panics |-> panics,
     host |-> IF Len(parts) = 2 THEN parts[1] ELSE <<>>,
     port |-> IF Len(parts) = 2 THEN atoi(parts[2]) ELSE 0,
     arg |-> arg]

\* net is the result of client.Send(msg): "nil" or a network error.
sendOSC(target, path, t, val, net) ==
    IF ~HasPrefix(target, OscTcpPrefix)
    THEN Sent("only osc.tcp:// supported", FALSE, <<>>, NoArg)
    ELSE
      LET parts == Split(TrimPrefix(target, OscTcpPrefix), ":") IN
      IF Len(parts) # 2
      THEN Sent("invalid OSC address format", FALSE, <<>>, NoArg)
      ELSE
        CASE t = "i" ->
               IF val.kind = "int"
               THEN Sent(net, FALSE, parts, Int32(val.v))
               ELSE Sent("nil", TRUE, parts, NoArg)
          [] t = "f" ->
               IF val.kind = "float64"
               THEN Sent(net, FALSE, parts, Float32(val.v))
               ELSE Sent("nil", TRUE, parts, NoArg)
          [] t = "s" ->
               IF val.kind = "string"
               THEN Sent(net, FALSE, parts, [kind |-> "string", v |-> val.v])
               ELSE Sent("nil", TRUE, parts, NoArg)
          [] t = "T" -> Sent(net, FALSE, parts, [kind |-> "bool", v |-> 1])
          [] t = "F" -> Sent(net, FALSE, parts, [kind |-> "bool", v |-> 0])
          [] OTHER -> Sent("unsupported OSC type", FALSE, parts, NoArg)

(* ------------------------------------------------------------------ *)
(* Channels                                                            *)
(* ------------------------------------------------------------------ *)
NilChan == [made |-> FALSE, closed |-> FALSE, buf |-> <<>>]

\* make(chan T, n)
MakeChan == [made |-> TRUE, closed |-> FALSE, buf |-> <<>>]

\* close(c)
Close(c) == [c EXCEPT !.closed = TRUE]

\* Mutant of SelectSend: the send always buffers, as a blocking send that
\* waits for room would.
UnboundedSend(c, cap, x) == [c EXCEPT !.buf = Append(@, x)]

\* Mutant of SelectSend: a value equal to one that is already buffered is
\* not buffered again.
DedupSend(c, cap, x) ==
    IF Len(c.buf) < cap /\ \A i \in 1..Len(c.buf) : c.buf[i] # x
    THEN [c EXCEPT !.buf = Append(@, x)]
    ELSE c

\* select { case c <- x: default: } on an open channel of capacity cap:
\* the value is buffered when there is room and dropped otherwise.
SelectSend(c, cap, x) ==
    IF Len(c.buf) < cap THEN [c EXCEPT !.buf = Append(@, x)] ELSE c

\* A receive (<-c, or one turn of `range c`) can proceed when the buffer
\* holds a value or the channel is closed.
CanRecv(c) == c.made /\ (c.buf # <<>> \/ c.closed)

\* Mutant of RecvVal: the newest buffered value is handed out.
RecvNewest(c) == c.buf[Len(c.buf)]

\* The value received (the oldest buffered one) and the channel after it.
RecvVal(c) == Head(c.buf)

RecvRest(c) == [c EXCEPT !.buf = Tail(@)]

(* ------------------------------------------------------------------ *)
(* Inputs: configurations and raw MIDI events                          *)
(* ------------------------------------------------------------------ *)
GoodTarget == OscTcpPrefix \o <<"h", ":", "9">>
UdpTarget == <<"o", "s", "c", ".", "u", "d", "p", ":", "/", "/", "h", ":", "9">>
NoPortTarget == OscTcpPrefix \o <<"h">>

ActSetActive == OSCAction("/Carla_Patchbay_4/0/set_active", "i", GoInt(1))
ActFloat == OSCAction("/gain", "f", GoFloat64(2))
ActString == OSCAction("/name", "s", GoString(3))
ActTrue == OSCAction("/on", "T", GoBool(1))
ActFalse == OSCAction("/off", "F", GoBool(0))
ActBadType == OSCAction("/blob", "b", GoInt(1))
ActMismatch == OSCAction("/volume", "i", GoString(3))

\* The rule tables the configuration is drawn from: two rules on the same
\* trigger, a rule whose first action has an unsupported type tag, a rule
\* whose first action's value does not have the type its tag names, a rule
\* on another controller, and targets that sendOSC rejects.
Configs ==
    << Config(GoodTarget,
              << Mapping(27, 127, <<ActSetActive>>),
                 Mapping(27, 0, <<ActBadType, ActFloat>>),
                 Mapping(27, 127, <<ActTrue, ActString>>) >>),
       Config(GoodTarget,
              << Mapping(27, 127, <<ActSetActive>>),
                 Mapping(27, 0, <<ActMismatch, ActFalse>>) >>),
       Config(UdpTarget,
              << Mapping(27, 127, <<ActSetActive, ActFalse>>) >>),
       Config(NoPortTarget,
              << Mapping(28, 127, <<ActFalse>>),
                 Mapping(27, 127, <<ActSetActive, ActString>>) >>) >>

\* Raw events (jack.MidiData.Buffer): Control-Change on channel 1 and on
\* channel 2, and a Note-On carrying the payload of a configured trigger.
RawEvents ==
    { <<176, 27, 127>>, <<177, 27, 0>>, <<144, 27, 127>> }

RECURSIVE SeqsUpTo(_, _)
SeqsUpTo(S, n) ==
    IF n = 0 THEN {<<>>}
    ELSE LET shorter == SeqsUpTo(S, n - 1) IN
         shorter \cup {Append(q, x) : q \in {r \in shorter : Len(r) = n - 1}, x \in S}

\* The batches of at most n raw events.
Batches(n) == SeqsUpTo(RawEvents, n)

NetResults == {"nil", "network"}

(* ------------------------------------------------------------------ *)
(* State                                                               *)
(* ------------------------------------------------------------------ *)
VARIABLES
    mainPc,         \* where main() is
    panic,          \* "none", or the run-time panic that ended the program
    cfg,            \* *Config: <<>> is nil, <<c>> points to c
    str,            \* main's `var str string`: <<>> is "", <<s>> holds s
    ch,             \* chan string, the raw-event lines
    eventChan,      \* chan MidiEvent
    callbackSet,    \* client.SetProcessCallback(process) succeeded
    shutdownSet,    \* client.OnShutdown(...) registered
    active,         \* client.Activate() succeeded
    shutdownFired,  \* JACK has run the shutdown handler
    procPc,         \* where process() is: "idle" between invocations
    events,         \* portIn.GetMidiEvents(nframes) of this invocation
    ei,             \* index of the event the outer loop is at
    rj,             \* index of the mapping the inner loop is at
    workerPc,       \* the sender goroutine
    msg,            \* the MidiEvent the sender is working on (<<>>: none)
    ak,             \* index of the action the sender is at
    loggerPc,       \* the raw-event logger goroutine
    attempts,       \* history: every select on eventChan by process()
    processed,      \* history: raw events process() has finished with
    delivered,      \* history: MidiEvents the sender received
    sends,          \* history: the calls of sendOSC for msg that returned
    sendCount,      \* history: how many calls of sendOSC have returned
    program,        \* which of the repository's three programs runs
    rt,             \* the rtmidi program of main.go (lines 1-207)
    hc              \* the hard-coded rtmidi program (handleCC)

vars == << mainPc, panic, cfg, str, ch, eventChan, callbackSet, shutdownSet, active,
           shutdownFired, procPc, events, ei, rj, workerPc, msg, ak,
           loggerPc, attempts, processed, delivered, sends, sendCount,
           program, rt, hc >>

\* The state of the JACK program.
jackVars == << mainPc, panic, cfg, str, ch, eventChan, callbackSet, shutdownSet,
              active, shutdownFired, procPc, events, ei, rj, workerPc, msg, ak,
              loggerPc, attempts, processed, delivered, sends, sendCount >>

\* What the JACK program never touches.
otherVars == << program, rt, hc >>

mainVars == << mainPc, cfg, str, callbackSet, shutdownSet, active >>
procVars == << procPc, events, ei, rj, attempts, processed >>
workerVars == << workerPc, msg, ak, delivered, sends, sendCount >>

\* The process is alive: main has not returned or exited, nothing panicked.
Running == program = "jack" /\ mainPc # "exited" /\ panic = "none"

\* The other two programs before they run, and when they are not the
\* program that runs.
RtOff == [pc |-> "off", config |-> <<>>, n |-> 0, cc |-> 0, val |-> 0,
          j |-> 0, k |-> 0, hits |-> <<>>, sends |-> <<>>]
RtStart == [RtOff EXCEPT !.pc = "load"]
HcOff == [pc |-> "off", n |-> 0, sends |-> <<>>]
HcStart == [HcOff EXCEPT !.pc = "init"]

\* The state at the start of program p.
InitFor(p) ==
    /\ mainPc = "load"
    /\ panic = "none"
    /\ cfg = <<>>
    /\ str = <<>>
    /\ ch = NilChan
    /\ eventChan = NilChan
    /\ callbackSet = FALSE
    /\ shutdownSet = FALSE
    /\ active = FALSE
    /\ shutdownFired = FALSE
    /\ procPc = "idle"
    /\ events = <<>>
    /\ ei = 0
    /\ rj = 0
    /\ workerPc = "off"
    /\ msg = <<>>
    /\ ak = 0
    /\ loggerPc = "off"
    /\ attempts = <<>>
    /\ processed = <<>>
    /\ delivered = <<>>
    /\ sends = <<>>
    /\ sendCount = 0
    /\ program = p
    /\ rt = IF p = "rtmidi" THEN RtStart ELSE RtOff
    /\ hc = IF p = "handleCC" THEN HcStart ELSE HcOff

\* The JACK program.
Init == InitFor("jack")

(* ------------------------------------------------------------------ *)
(* main(): start-up                                                    *)
(* ------------------------------------------------------------------ *)
\* os.Exit(1), log.Fatal, or a return from main: the process is gone.
Exit == mainPc' = "exited"

\* Mutant of LoadConfig: main goes on without having loaded a configuration.
LoadConfigSkipped ==
    /\ Running /\ mainPc = "load"
    /\ mainPc' = "open"
    /\ UNCHANGED otherVars
    /\ UNCHANGED << str, cfg, panic, ch, eventChan, callbackSet, shutdownSet,
                    active, shutdownFired, procVars, workerVars, loggerPc >>

\* The embedded or the given YAML is parsed into cfg; a failure exits.
LoadConfig ==
    /\ Running /\ mainPc = "load"
    /\ \E c \in 0..Len(Configs) :
         IF c = 0
         THEN Exit /\ cfg' = cfg
         ELSE mainPc' = "open" /\ cfg' = <<Configs[c]>>
    /\ UNCHANGED otherVars
    /\ UNCHANGED << str, panic, ch, eventChan, callbackSet, shutdownSet, active,
                    shutdownFired, procVars, workerVars, loggerPc >>

\* jack.ClientOpen and client.PortRegister; a failure is fatal.
OpenClient ==
    /\ Running /\ mainPc = "open"
    /\ \E ok \in BOOLEAN : IF ok THEN mainPc' = "chans" ELSE Exit
    /\ UNCHANGED otherVars
    /\ UNCHANGED << str, panic, cfg, ch, eventChan, callbackSet, shutdownSet, active,
                    shutdownFired, procVars, workerVars, loggerPc >>

MakeChans ==
    /\ Running /\ mainPc = "chans"
    /\ eventChan' = MakeChan
    /\ ch' = MakeChan
    /\ mainPc' = "spawn"
    /\ UNCHANGED otherVars
    /\ UNCHANGED << str, panic, cfg, callbackSet, shutdownSet, active,
                    shutdownFired, procVars, workerVars, loggerPc >>

\* go func() { for line := range ch ... }() and
\* go func() { for msg := range eventChan ... }()
StartGoroutines ==
    /\ Running /\ mainPc = "spawn"
    /\ loggerPc' = "recv"
    /\ workerPc' = "recv"
    /\ mainPc' = "setcb"
    /\ UNCHANGED otherVars
    /\ UNCHANGED << str, panic, cfg, ch, eventChan, callbackSet, shutdownSet, active,
                    shutdownFired, procVars, msg, ak, delivered, sends, sendCount >>

SetProcessCallback ==
    /\ Running /\ mainPc = "setcb"
    /\ \E ok \in BOOLEAN :
         IF ok
         THEN mainPc' = "onshutdown" /\ callbackSet' = TRUE
         ELSE Exit /\ callbackSet' = callbackSet
    /\ UNCHANGED otherVars
    /\ UNCHANGED << str, panic, cfg, ch, eventChan, shutdownSet, active,
                    shutdownFired, procVars, workerVars, loggerPc >>

OnShutdown ==
    /\ Running /\ mainPc = "onshutdown"
    /\ shutdownSet' = TRUE
    /\ mainPc' = "activate"
    /\ UNCHANGED otherVars
    /\ UNCHANGED << str, panic, cfg, ch, eventChan, callbackSet, active,
                    shutdownFired, procVars, workerVars, loggerPc >>

Activate ==
    /\ Running /\ mainPc = "activate"
    /\ \E ok \in BOOLEAN :
         IF ok
         THEN mainPc' = "wait" /\ active' = TRUE
         ELSE Exit /\ active' = active
    /\ UNCHANGED otherVars
    /\ UNCHANGED << str, panic, cfg, ch, eventChan, callbackSet, shutdownSet,
                    shutdownFired, procVars, workerVars, loggerPc >>

\* for more { str, more = <-ch; fmt.Printf(...) }: main receives from ch
\* until ch is closed and empty, and then returns.
WaitLoop ==
    /\ Running /\ mainPc = "wait"
    /\ CanRecv(ch)
    /\ IF ch.buf # <<>>
       THEN ch' = RecvRest(ch) /\ str' = <<RecvVal(ch)>> /\ mainPc' = mainPc
       ELSE ch' = ch /\ str' = <<>> /\ Exit
    /\ UNCHANGED otherVars
    /\ UNCHANGED << panic, cfg, eventChan, callbackSet, shutdownSet, active,
                    shutdownFired, procVars, workerVars, loggerPc >>

(* ------------------------------------------------------------------ *)
(* JACK: the shutdown notification                                     *)
(* ------------------------------------------------------------------ *)
\* JACK runs the handler registered by client.OnShutdown, once: close(ch).
\* The handler runs on a thread of its own; nothing in it deactivates the
\* client, waits for the realtime thread or touches eventChan, so the
\* callback may be running, or be entered again, when ch is closed.
Shutdown ==
    /\ Running /\ active /\ shutdownSet /\ ~shutdownFired
    /\ shutdownFired' = TRUE
    /\ ch' = Close(ch)
    /\ UNCHANGED otherVars
    /\ UNCHANGED << mainVars, panic, eventChan, procVars, workerVars, loggerPc >>

(* ------------------------------------------------------------------ *)
(* process(): the realtime callback                                    *)
(* ------------------------------------------------------------------ *)
\* event.Buffer[0] & 0xF0
StatusNibble(b) == (b \div 16) * 16

\* Mutant of IsCC: every status byte is taken for a Control-Change.
AnyStatus(event) == event[1] >= 128

IsCC(event) == StatusNibble(event[1]) = CCStatus

\* fmt.Sprintf("%#v", event): the Go-syntax text of the event.
Sprintf(event) == [goSyntax |-> event]

\* Mutant of Matches: any value of the controller triggers the rule.
MatchesAnyValue(m, cc, val) == m.CC = cc

Matches(m, cc, val) == m.CC = cc /\ m.Value = val

\* Mutant of MidiEvent: only the rule's first action is carried.
MidiEventOneAction(cc, val, c, m) ==
    [CC |-> cc, Value |-> val, Target |-> c.OscTarget,
     Actions |-> SubSeq(m.Actions, 1, 1)]

MidiEvent(cc, val, c, m) ==
    [CC |-> cc, Value |-> val, Target |-> c.OscTarget, Actions |-> m.Actions]

\* Mutant of NextRule: the loop breaks at the first match.
FirstMatchOnly(j, matched, n) == IF matched THEN n + 1 ELSE j + 1

\* The mapping the inner loop looks at after mapping j of n (matched tells
\* whether mapping j matched): the loop has no break.
NextRule(j, matched, n) == j + 1

\* The outer loop moves to the next event, or process() returns 0.
NextEvent ==
    /\ processed' = Append(processed, events[ei])
    /\ rj' = 0
    /\ IF ei < Len(events)
       THEN ei' = ei + 1 /\ procPc' = "diag"
       ELSE ei' = 0 /\ procPc' = "idle"

\* JACK invokes the registered callback of an active client.  A nil cfg or
\* an empty batch returns at once.  The model hands process() at most
\* MaxEvents raw events over all invocations.
ProcessBegin ==
    /\ Running /\ active /\ callbackSet
    /\ procPc = "idle"
    /\ \E batch \in Batches(MaxEvents - Len(processed)) :
         /\ events' = batch
         /\ IF cfg = <<>> \/ batch = <<>>
            THEN procPc' = "idle" /\ ei' = 0
            ELSE procPc' = "diag" /\ ei' = 1
    /\ UNCHANGED otherVars
    /\ UNCHANGED << mainVars, panic, ch, eventChan, shutdownFired, rj, attempts,
                    processed, workerVars, loggerPc >>

\* select { case ch <- fmt.Sprintf("%#v", event): default: } and then the
\* test of the status byte.  A send on a closed channel panics.
ProcessDiag ==
    /\ Running /\ procPc = "diag"
    /\ IF ch.closed
       THEN /\ panic' = "send on closed channel"
            /\ UNCHANGED << ch, procPc, ei, rj, processed >>
       ELSE /\ panic' = panic
            /\ ch' = SelectSend(ch, ChCap, Sprintf(events[ei]))
            /\ IF IsCC(events[ei]) /\ cfg[1].Mappings # <<>>
               THEN procPc' = "rules" /\ rj' = 1 /\ UNCHANGED << ei, processed >>
               ELSE NextEvent
    /\ UNCHANGED otherVars
    /\ UNCHANGED << mainVars, eventChan, shutdownFired, events, attempts,
                    workerVars, loggerPc >>

\* One turn of `for _, m := range cfg.Mappings`: the comparison and, on a
\* match, select { case eventChan <- msg: default: }.
ProcessRule ==
    /\ Running /\ procPc = "rules"
    /\ LET cc == events[ei][2]
           val == events[ei][3]
           m == cfg[1].Mappings[rj]
           matched == Matches(m, cc, val)
           out == MidiEvent(cc, val, cfg[1], m)
           next == NextRule(rj, matched, Len(cfg[1].Mappings))
       IN
       IF matched /\ eventChan.closed
       THEN /\ panic' = "send on closed channel"
            /\ UNCHANGED << eventChan, procPc, ei, rj, attempts, processed >>
       ELSE /\ panic' = panic
            /\ eventChan' = IF matched
                            THEN SelectSend(eventChan, EventChanCap, out)
                            ELSE eventChan
            /\ attempts' = IF matched
                           THEN Append(attempts,
                                  [ev |-> Len(processed) + 1, rule |-> rj,
                                   msg |-> out, qlen |-> Len(eventChan.buf),
                                   ok |-> eventChan' # eventChan])
                           ELSE attempts
            /\ IF next <= Len(cfg[1].Mappings)
               THEN rj' = next /\ UNCHANGED << procPc, ei, processed >>
               ELSE NextEvent
    /\ UNCHANGED otherVars
    /\ UNCHANGED << mainVars, ch, shutdownFired, events, workerVars,
                    loggerPc >>

(* ------------------------------------------------------------------ *)
(* The sender goroutine and the raw-event logger                       *)
(* ------------------------------------------------------------------ *)
\* Mutant of NextAction: an error ends the work on this MidiEvent.
AbortOnError(k, err, n) == IF err # "nil" THEN n + 1 ELSE k + 1

\* The action the sender looks at after action k of n, whose sendOSC
\* returned err: the loop goes on whatever err is.
NextAction(k, err, n) == k + 1

\* for msg := range eventChan: the oldest MidiEvent, or the end of the loop
\* when eventChan is closed and empty.
WorkerRecv ==
    /\ Running /\ workerPc = "recv"
    /\ CanRecv(eventChan)
    /\ IF eventChan.buf # <<>>
       THEN /\ msg' = <<RecvVal(eventChan)>>
            /\ eventChan' = RecvRest(eventChan)
            /\ delivered' = Append(delivered, RecvVal(eventChan))
            /\ sends' = <<>>
            /\ IF RecvVal(eventChan).Actions = <<>>
               THEN workerPc' = "recv" /\ ak' = 0
               ELSE workerPc' = "send" /\ ak' = 1
       ELSE /\ workerPc' = "done"
            /\ UNCHANGED << msg, eventChan, delivered, ak, sends >>
    /\ sendCount' = sendCount
    /\ UNCHANGED otherVars
    /\ UNCHANGED << mainVars, panic, ch, shutdownFired, procVars, loggerPc >>

\* One turn of `for _, act := range msg.Actions`: sendOSC and the log line.
WorkerSend ==
    /\ Running /\ workerPc = "send"
    /\ \E net \in NetResults :
         LET act == msg[1].Actions[ak]
             r == sendOSC(msg[1].Target, act.Path, act.Type, act.Value, net)
             next == NextAction(ak, r.err, Len(msg[1].Actions))
         IN
         IF r.panics
         THEN /\ panic' = "interface conversion"
              /\ UNCHANGED << workerPc, ak, sends, sendCount >>
         ELSE /\ panic' = panic
              /\ sendCount' = sendCount + 1
              /\ sends' = Append(sends,
                            [act |-> ak,
                             path |-> act.Path, type |-> act.Type,
                             host |-> r.host, port |-> r.port, arg |-> r.arg,
                             err |-> r.err,
                             log |-> IF r.err = "nil" THEN "OSC sent"
                                     ELSE "Failed to send OSC"])
              /\ IF next <= Len(msg[1].Actions)
                 THEN ak' = next /\ workerPc' = workerPc
                 ELSE ak' = 0 /\ workerPc' = "recv"
    /\ UNCHANGED otherVars
    /\ UNCHANGED << mainVars, ch, eventChan, shutdownFired, procVars, msg,
                    delivered, loggerPc >>

\* for line := range ch { slog.Debug(...) }
LoggerRecv ==
    /\ Running /\ loggerPc = "recv"
    /\ CanRecv(ch)
    /\ IF ch.buf # <<>>
       THEN ch' = RecvRest(ch) /\ loggerPc' = loggerPc
       ELSE ch' = ch /\ loggerPc' = "done"
    /\ UNCHANGED otherVars
    /\ UNCHANGED << mainVars, panic, eventChan, shutdownFired, procVars,
                    workerVars >>

(* ------------------------------------------------------------------ *)
(* Specifications                                                      *)
(* ------------------------------------------------------------------ *)
Main ==
    \/ LoadConfig \/ OpenClient \/ MakeChans \/ StartGoroutines
    \/ SetProcessCallback \/ OnShutdown \/ Activate \/ WaitLoop

ProcessStep == ProcessDiag \/ ProcessRule

Next ==
    \/ LoadConfig
    \/ OpenClient
    \/ MakeChans
    \/ StartGoroutines
    \/ SetProcessCallback
    \/ OnShutdown
    \/ Activate
    \/ WaitLoop
    \/ Shutdown
    \/ ProcessBegin
    \/ ProcessDiag
    \/ ProcessRule
    \/ WorkerRecv
    \/ WorkerSend
    \/ LoggerRecv

Spec == Init /\ [][Next]_vars

\* The Go scheduler runs every goroutine that can take a step, and JACK's
\* realtime thread runs a callback it has entered to its end.  When JACK
\* invokes the callback and when it shuts down is up to JACK.
FairSpec ==
    /\ Spec
    /\ WF_vars(Main)
    /\ WF_vars(ProcessStep)
    /\ WF_vars(WorkerRecv \/ WorkerSend)
    /\ WF_vars(LoggerRecv)

(* ------------------------------------------------------------------ *)
(* Notions the properties are stated with                              *)
(* ------------------------------------------------------------------ *)
\* The raw events process() has looked at, the one in hand included.
Seen ==
    IF procPc = "idle" THEN processed ELSE Append(processed, events[ei])

\* The indices, in order, of the attempts made for the n-th raw event.
AttemptsOf(n) ==
    LET ForN(i) == attempts[i].ev = n
        idx == [i \in 1..Len(attempts) |-> i]
    IN SelectSeq(idx, ForN)

\* The rules before rule j of the table whose cc and value both equal the
\* event's, in the order of the table.
RulesFor(event, j) ==
    LET table == cfg[1].Mappings
        Hit(r) == r < j /\ table[r].CC = event[2] /\ table[r].Value = event[3]
        idx == [r \in 1..Len(table) |-> r]
    IN SelectSeq(idx, Hit)

\* How far the inner loop has come for the n-th raw event.
RulesDone(n) ==
    IF n <= Len(processed) THEN Len(cfg[1].Mappings) + 1
    ELSE IF procPc = "rules" THEN rj ELSE 1

\* The MidiEvents of the attempts that were buffered, in order.
Accepted ==
    LET Ok(a) == a.ok IN
    [i \in 1..Len(SelectSeq(attempts, Ok)) |-> SelectSeq(attempts, Ok)[i].msg]

(* ------------------------------------------------------------------ *)
(* C1: the event queue never holds more than its capacity, and an      *)
(* enqueue attempted on a full queue drops the outcome and leaves the  *)
(* queue as it was.                                                    *)
(* ------------------------------------------------------------------ *)
C1_QueueBounded ==
    /\ Len(eventChan.buf) <= EventChanCap
    /\ \A i \in 1..Len(attempts) :
         /\ attempts[i].qlen <= EventChanCap
         /\ attempts[i].qlen = EventChanCap => ~attempts[i].ok

C1_Witness ==
    /\ Len(eventChan.buf) = EventChanCap
    /\ \E i \in 1..Len(attempts) :
         attempts[i].qlen = EventChanCap /\ ~attempts[i].ok

(* ------------------------------------------------------------------ *)
(* C2: every invocation of process() runs to completion and returns.   *)
(* ------------------------------------------------------------------ *)
C2_ProcessReturns == (procPc # "idle") ~> (procPc = "idle")

(* ------------------------------------------------------------------ *)
(* C3: process() never attempts a send on a closed channel.            *)
(* ------------------------------------------------------------------ *)
C3_NoSendOnClosed == panic # "send on closed channel"

(* ------------------------------------------------------------------ *)
(* C4: what the sender has received, followed by what the queue holds, *)
(* is the sequence of attempted outcomes with the dropped ones         *)
(* removed: nothing is reordered, duplicated or lost.                  *)
(* ------------------------------------------------------------------ *)
C4_Fifo == delivered \o eventChan.buf = Accepted

C4_Witness ==
    /\ Len(delivered) >= 2
    /\ delivered[1] # delivered[2]
    /\ \E i \in 1..Len(attempts) : ~attempts[i].ok

\* The status byte's upper nibble is 0xB.
IsControlChange(event) == event[1] \div 16 = 11

\* The rules of the whole table that the event's payload matches.
AllRulesFor(event) == RulesFor(event, Len(cfg[1].Mappings) + 1)

(* ------------------------------------------------------------------ *)
(* C5: for a Control-Change event process() makes one enqueue attempt  *)
(* per rule whose cc and value both equal the event's, in the order of *)
(* the table, and none for another rule; an attempt is buffered        *)
(* whenever the queue has room, so M matches with room give M outcomes *)
(* in that order.                                                      *)
(* ------------------------------------------------------------------ *)
C5_AllMatchesInOrder ==
    cfg # <<>> =>
      /\ \A n \in 1..Len(Seen) :
           IsControlChange(Seen[n]) =>
             [i \in 1..Len(AttemptsOf(n)) |-> attempts[AttemptsOf(n)[i]].rule]
               = RulesFor(Seen[n], RulesDone(n))
      /\ \A i \in 1..Len(attempts) :
           /\ attempts[i].ok <=> attempts[i].qlen < EventChanCap
           /\ attempts[i].msg.Actions = cfg[1].Mappings[attempts[i].rule].Actions
      /\ delivered \o eventChan.buf = Accepted

C5_Witness ==
    \E n \in 1..Len(processed) :
      /\ Len(AttemptsOf(n)) > 1
      /\ \A i \in 1..Len(AttemptsOf(n)) : attempts[AttemptsOf(n)[i]].ok

\* What sendOSC appends to the message for an action: the action's value
\* converted as its type tag says.
Encoded(act) ==
    CASE act.Type = "i" -> [kind |-> "int32", v |-> act.Value.v]
      [] act.Type = "f" -> [kind |-> "float32", v |-> act.Value.v]
      [] act.Type = "s" -> [kind |-> "string", v |-> act.Value.v]
      [] act.Type = "T" -> [kind |-> "bool", v |-> 1]
      [] act.Type = "F" -> [kind |-> "bool", v |-> 0]
      [] OTHER -> NoArg

(* ------------------------------------------------------------------ *)
(* C6: an event matching exactly one rule with N actions gives exactly *)
(* one outcome, carrying the rule's N actions and the configured       *)
(* target, and the sender makes exactly N sends for an outcome, in the *)
(* order of its actions, each with the action's path, type and value.  *)
(* ------------------------------------------------------------------ *)
C6_OneRuleOneOutcome ==
    /\ cfg # <<>> =>
         \A n \in 1..Len(processed) :
           (IsControlChange(processed[n]) /\ Len(AllRulesFor(processed[n])) = 1) =>
             /\ Len(AttemptsOf(n)) = 1
             /\ attempts[AttemptsOf(n)[1]].msg =
                  [CC |-> processed[n][2], Value |-> processed[n][3],
                   Target |-> cfg[1].OscTarget,
                   Actions |-> cfg[1].Mappings[AllRulesFor(processed[n])[1]].Actions]
    /\ msg # <<>> =>
         /\ workerPc = "recv" => Len(sends) = Len(msg[1].Actions)
         /\ Len(sends) <= Len(msg[1].Actions)
         /\ \A k \in 1..Len(sends) :
              /\ sends[k].act = k
              /\ sends[k].path = msg[1].Actions[k].Path
              /\ sends[k].type = msg[1].Actions[k].Type
              /\ sends[k].err \in {"nil", "network"} =>
                   sends[k].arg = Encoded(msg[1].Actions[k])

\* The rule cc=27, value=127 with the single action
\* /Carla_Patchbay_4/0/set_active i 1 has been matched and sent.
C6_Witness ==
    /\ cfg = <<Configs[2]>>
    /\ workerPc = "recv"
    /\ msg = << [CC |-> 27, Value |-> 127, Target |-> GoodTarget,
                 Actions |-> <<ActSetActive>>] >>
    /\ Len(sends) = 1
    /\ sends[1].path = "/Carla_Patchbay_4/0/set_active"
    /\ sends[1].arg = [kind |-> "int32", v |-> 1]
    /\ sends[1].err = "nil"
    /\ sends[1].host = <<"h">> /\ sends[1].port = 9

(* ------------------------------------------------------------------ *)
(* C7: an event whose (controller, value) no rule matches enqueues no  *)
(* outcome: no attempt is made for it and no outcome carrying that     *)
(* pair is ever queued or handed to the sender.                        *)
(* ------------------------------------------------------------------ *)
C7_NoMatchNoOutcome ==
    cfg # <<>> =>
      \A n \in 1..Len(Seen) :
        AllRulesFor(Seen[n]) = <<>> =>
          /\ AttemptsOf(n) = <<>>
          /\ \A i \in 1..Len(delivered \o eventChan.buf) :
               LET m == (delivered \o eventChan.buf)[i] IN
               ~(m.CC = Seen[n][2] /\ m.Value = Seen[n][3])

C7_Witness ==
    /\ Len(attempts) > 0
    /\ \E n \in 1..Len(processed) :
         IsControlChange(processed[n]) /\ AllRulesFor(processed[n]) = <<>>

\* The sender is about to send an action whose value does not have the
\* type its tag names.
AtMismatch ==
    /\ workerPc = "send"
    /\ LET act == msg[1].Actions[ak] IN
         \/ act.Type = "i" /\ act.Value.kind # "int"
         \/ act.Type = "f" /\ act.Value.kind # "float64"
         \/ act.Type = "s" /\ act.Value.kind # "string"

(* ------------------------------------------------------------------ *)
(* C8: an action whose value does not have the type its tag names is   *)
(* an action-local error: the sender reports it and goes on.           *)
(* ------------------------------------------------------------------ *)
C8_MismatchIsLocal ==
    [][(AtMismatch /\ WorkerSend) =>
         /\ panic' = "none"
         /\ workerPc' \in {"send", "recv"}
         /\ Len(sends') = Len(sends) + 1
         /\ sends'[Len(sends')].err # "nil"]_vars

(* ------------------------------------------------------------------ *)
(* C9: the sender attempts each action of an outcome once, in order,   *)
(* whatever error earlier sends returned; a failed send is reported,   *)
(* not retried, and the sender goes on with the next action and the    *)
(* next outcome.                                                       *)
(* ------------------------------------------------------------------ *)
C9_SendErrorsAreLocal ==
    msg # <<>> =>
      /\ workerPc \in {"send", "recv"}
      /\ workerPc = "send" => Len(sends) = ak - 1
      /\ workerPc = "recv" => Len(sends) = Len(msg[1].Actions)
      /\ \A k \in 1..Len(sends) :
           /\ sends[k].act = k
           /\ sends[k].log = IF sends[k].err = "nil" THEN "OSC sent"
                             ELSE "Failed to send OSC"

\* Two outcomes were received; every send of the first failed (the target
\* is not osc.tcp://), and both sends of the second were made and failed.
C9_Witness ==
    /\ cfg = <<Configs[3]>>
    /\ Len(delivered) = 2
    /\ workerPc = "recv"
    /\ Len(sends) = 2
    /\ sends[1].err # "nil"
    /\ sends[2].err # "nil"

(* ------------------------------------------------------------------ *)
(* C10: once shutdown has been requested the event queue is eventually *)
(* closed and the sender's loop exits.                                 *)
(* ------------------------------------------------------------------ *)
C10_WorkerTerminates == shutdownFired ~> (eventChan.closed /\ workerPc = "done")

(* ------------------------------------------------------------------ *)
(* C11: once the shutdown notification has fired, no invocation of     *)
(* process() enqueues an outcome onto the event queue, and the         *)
(* lifecycle does not go back: the shutdown stays fired and a program  *)
(* that has stopped stays stopped.                                     *)
(* ------------------------------------------------------------------ *)
C11_NoEnqueueAfterShutdown ==
    [][/\ (shutdownFired /\ ProcessRule) => eventChan' = eventChan
       /\ shutdownFired => shutdownFired'
       /\ ~Running => ~Running']_vars

(* ------------------------------------------------------------------ *)
(* The program while JACK sends no shutdown notification, the sender   *)
(* goroutine being scheduled whenever it can take a step.              *)
(* ------------------------------------------------------------------ *)
NextNoShutdown ==
    \/ LoadConfig
    \/ OpenClient
    \/ MakeChans
    \/ StartGoroutines
    \/ SetProcessCallback
    \/ OnShutdown
    \/ Activate
    \/ WaitLoop
    \/ ProcessBegin
    \/ ProcessDiag
    \/ ProcessRule
    \/ WorkerRecv
    \/ WorkerSend
    \/ LoggerRecv

NoShutdownFairSpec ==
    /\ Init
    /\ [][NextNoShutdown]_vars
    /\ WF_vars(WorkerRecv \/ WorkerSend)

\* The longest rule table, and the numbers an accepted outcome can have.
MaxTableLen ==
    CHOOSE n \in {Len(Configs[c].Mappings) : c \in 1..Len(Configs)} :
      \A c \in 1..Len(Configs) : Len(Configs[c].Mappings) <= n

OutcomeIds == 1..(MaxEvents * MaxTableLen)

\* The sender has received the i-th accepted outcome and has been through
\* all its actions.
FullySent(i) ==
    \/ Len(delivered) > i
    \/ Len(delivered) = i /\ workerPc = "recv"

(* ------------------------------------------------------------------ *)
(* C12: an enqueue on a full queue is dropped, and every outcome that  *)
(* was buffered is eventually received by the sender, in the order of  *)
(* the attempts, and has all its actions attempted (the sender being   *)
(* scheduled fairly and no shutdown arriving).                         *)
(* ------------------------------------------------------------------ *)
C12_AcceptedAreSent ==
    /\ [](\A i \in 1..Len(attempts) :
            attempts[i].qlen = EventChanCap => ~attempts[i].ok)
    /\ [](delivered \o eventChan.buf = Accepted)
    /\ \A i \in OutcomeIds : (Len(Accepted) >= i) ~> FullySent(i)

(* ------------------------------------------------------------------ *)
(* The rtmidi program of main.go (lines 1-207): the ControlChange      *)
(* handler looks the message up in the rule table and sends the OSC    *)
(* messages itself, on the reader's goroutine.  Its sendOSC (lines     *)
(* 170-201) is, statement for statement, the sendOSC of the JACK       *)
(* program.                                                            *)
(* ------------------------------------------------------------------ *)
\* The (controller, value) pairs the reader hands to the handler.
CCMessages == { <<27, 127>>, <<27, 0>>, <<28, 127>> }

\* m.CC == cc && m.Value == val
RtMatches(m, cc, val) == m.CC = cc /\ m.Value = val

\* The rule the handler looks at after rule j, or the end of the handler.
RtAfterRule(r, j) ==
    IF j < Len(r.config[1].Mappings)
    THEN [r EXCEPT !.pc = "rule", !.j = j + 1, !.k = 0]
    ELSE [r EXCEPT !.pc = "listen", !.j = 0, !.k = 0]

\* config, err := loadConfig(*configPath); a failure exits.
RtLoadConfig ==
    /\ program = "rtmidi" /\ rt.pc = "load"
    /\ \E c \in 0..Len(Configs) :
         rt' = IF c = 0 THEN [rt EXCEPT !.pc = "exited"]
               ELSE [rt EXCEPT !.pc = "open", !.config = <<Configs[c]>>]
    /\ UNCHANGED << jackVars, program, hc >>

\* rtmididrv.New, drv.Ins, in.Open, reader.New, go rd.ListenTo(in); a
\* failure exits, and so does -list-midi.
RtOpenMidi ==
    /\ program = "rtmidi" /\ rt.pc = "open"
    /\ \E ok \in BOOLEAN :
         rt' = [rt EXCEPT !.pc = IF ok THEN "listen" ELSE "exited"]
    /\ UNCHANGED << jackVars, program, hc >>

\* The reader calls the ControlChange handler with a message.
RtControlChange ==
    /\ program = "rtmidi" /\ rt.pc = "listen"
    /\ rt.n < MaxEvents
    /\ \E m \in CCMessages :
         rt' = [rt EXCEPT !.n = @ + 1, !.cc = m[1], !.val = m[2],
                          !.hits = <<>>, !.sends = <<>>,
                          !.j = IF rt.config[1].Mappings = <<>> THEN 0 ELSE 1,
                          !.pc = IF rt.config[1].Mappings = <<>>
                                 THEN "listen" ELSE "rule"]
    /\ UNCHANGED << jackVars, program, hc >>

\* One turn of `for _, m := range config.Mappings`: the comparison and, on
\* a match, the "Matched MIDI CC" line.
RtRule ==
    /\ program = "rtmidi" /\ rt.pc = "rule"
    /\ LET m == rt.config[1].Mappings[rt.j] IN
       rt' = IF RtMatches(m, rt.cc, rt.val)
             THEN IF m.Actions = <<>>
                  THEN RtAfterRule([rt EXCEPT !.hits = Append(@, rt.j)], rt.j)
                  ELSE [rt EXCEPT !.hits = Append(@, rt.j), !.pc = "action",
                                  !.k = 1]
             ELSE RtAfterRule(rt, rt.j)
    /\ UNCHANGED << jackVars, program, hc >>

\* One turn of `for _, action := range m.Actions`: sendOSC and the log line.
RtAction ==
    /\ program = "rtmidi" /\ rt.pc = "action"
    /\ \E net \in NetResults :
         LET m == rt.config[1].Mappings[rt.j]
             act == m.Actions[rt.k]
             r == sendOSC(rt.config[1].OscTarget, act.Path, act.Type,
                          act.Value, net)
             logged == [rt EXCEPT !.sends = Append(@,
                          [rule |-> rt.j, act |-> rt.k, path |-> act.Path,
                           type |-> act.Type, arg |-> r.arg, err |-> r.err])]
         IN
         rt' = IF r.panics THEN [rt EXCEPT !.pc = "panicked"]
               ELSE IF rt.k < Len(m.Actions)
                    THEN [logged EXCEPT !.k = rt.k + 1]
                    ELSE RtAfterRule(logged, rt.j)
    /\ UNCHANGED << jackVars, program, hc >>

\* <-sigChan: Ctrl+C ends main, whatever the handler is doing.
RtInterrupt ==
    /\ program = "rtmidi" /\ rt.pc \in {"listen", "rule", "action"}
    /\ rt' = [rt EXCEPT !.pc = "exited"]
    /\ UNCHANGED << jackVars, program, hc >>

RtNext ==
    \/ RtLoadConfig
    \/ RtOpenMidi
    \/ RtControlChange
    \/ RtRule
    \/ RtAction
    \/ RtInterrupt

(* ------------------------------------------------------------------ *)
(* The hard-coded rtmidi program (handleCC): no rule table, one        *)
(* controller and one OSC path.                                        *)
(* ------------------------------------------------------------------ *)
HcController == 27

HcAddress ==
    OscTcpPrefix \o
    << "c", "l", "r", "i", "n", "f", "o", "p", "o", "1", "8", ".",
       "h", "o", "m", "e", ":", "2", "2", "7", "5", "2" >>

HcPath == "/Carla_Patchbay_4/0/set_active"

\* sendOSC of the hard-coded program: only the type "i", whose value must
\* be an int32 (a checked assertion, which returns an error).
HcSendOSC(oscAddress, oscPath, oscType, value, net) ==
    IF ~HasPrefix(oscAddress, OscTcpPrefix)
    THEN Sent("only osc.tcp:// is supported", FALSE, <<>>, NoArg)
    ELSE
      LET addrParts == Split(TrimPrefix(oscAddress, OscTcpPrefix), ":") IN
      IF Len(addrParts) # 2
      THEN Sent("invalid OSC address format", FALSE, <<>>, NoArg)
      ELSE IF oscType = "i"
           THEN IF value.kind = "int32"
                THEN Sent(net, FALSE, addrParts, value)
                ELSE Sent("value must be int32 for type 'i'", FALSE,
                          addrParts, NoArg)
           ELSE Sent("unsupported OSC type", FALSE, addrParts, NoArg)

\* var oscVal int32 = 0; if val > 0 { oscVal = 1 }
HcOscVal(val) == Int32(IF val > 0 THEN 1 ELSE 0)

\* handleCC: the log entries it makes, one per call of sendOSC.
handleCC(cc, val, oscAddr, oscPath, net) ==
    IF cc = HcController
    THEN LET r == HcSendOSC(oscAddr, oscPath, "i", HcOscVal(val), net) IN
         << [cc |-> cc, val |-> val, path |-> oscPath, host |-> r.host,
             port |-> r.port, arg |-> r.arg, err |-> r.err] >>
    ELSE <<>>

\* rtmididrv.New, drv.Ins, in.Open, go rd.ListenTo(in); a failure is fatal.
HcOpenMidi ==
    /\ program = "handleCC" /\ hc.pc = "init"
    /\ \E ok \in BOOLEAN :
         hc' = [hc EXCEPT !.pc = IF ok THEN "listen" ELSE "exited"]
    /\ UNCHANGED << jackVars, program, rt >>

\* The reader calls the ControlChange handler, which calls handleCC.
HcControlChange ==
    /\ program = "handleCC" /\ hc.pc = "listen"
    /\ hc.n < MaxEvents
    /\ \E m \in CCMessages, net \in NetResults :
         hc' = [hc EXCEPT !.n = @ + 1,
                          !.sends = @ \o handleCC(m[1], m[2], HcAddress,
                                                  HcPath, net)]
    /\ UNCHANGED << jackVars, program, rt >>

\* <-sigChan
HcInterrupt ==
    /\ program = "handleCC" /\ hc.pc = "listen"
    /\ hc' = [hc EXCEPT !.pc = "exited"]
    /\ UNCHANGED << jackVars, program, rt >>

HcNext ==
    \/ HcOpenMidi
    \/ HcControlChange
    \/ HcInterrupt

(* ------------------------------------------------------------------ *)
(* The repository: one of its three programs runs.                     *)
(* ------------------------------------------------------------------ *)
Programs == {"jack", "rtmidi", "handleCC"}

ProgramsInit == \E p \in Programs : InitFor(p)

ProgramsNext ==
    \/ LoadConfig
    \/ OpenClient
    \/ MakeChans
    \/ StartGoroutines
    \/ SetProcessCallback
    \/ OnShutdown
    \/ Activate
    \/ WaitLoop
    \/ Shutdown
    \/ ProcessBegin
    \/ ProcessDiag
    \/ ProcessRule
    \/ WorkerRecv
    \/ WorkerSend
    \/ LoggerRecv
    \/ RtLoadConfig
    \/ RtOpenMidi
    \/ RtControlChange
    \/ RtRule
    \/ RtAction
    \/ RtInterrupt
    \/ HcOpenMidi
    \/ HcControlChange
    \/ HcInterrupt

ProgramsSpec == ProgramsInit /\ [][ProgramsNext]_vars

\* No rule of the table is triggered by the controller with value 0.
NoRuleForZero(table, cc) ==
    \A r \in 1..Len(table) : ~(table[r].CC = cc /\ table[r].Value = 0)

\* In the JACK callback and in the rtmidi handler a Control-Change with
\* value 0 matches nothing and sends nothing when no rule declares value 0.
ExactInRuleTables ==
    /\ (program = "jack" /\ cfg # <<>>) =>
         \A n \in 1..Len(Seen) :
           (/\ IsControlChange(Seen[n])
            /\ Seen[n][3] = 0
            /\ NoRuleForZero(cfg[1].Mappings, Seen[n][2])) =>
             /\ AttemptsOf(n) = <<>>
             /\ \A i \in 1..Len(delivered \o eventChan.buf) :
                  (delivered \o eventChan.buf)[i].Value # 0
    /\ (/\ program = "rtmidi" /\ rt.n > 0
        /\ rt.val = 0 /\ NoRuleForZero(rt.config[1].Mappings, rt.cc)) =>
         rt.hits = <<>> /\ rt.sends = <<>>

(* ------------------------------------------------------------------ *)
(* C13: matching is exact equality on the value in every               *)
(* Control-Change handler of the repository: a Control-Change for      *)
(* controller 27 with value 0 matches nothing and sends nothing when   *)
(* no rule declares the value 0.  For the JACK callback and the rtmidi *)
(* handler that is ExactInRuleTables; handleCC has no rule for the     *)
(* value 0 (it has no rule table), so it must send nothing for it.     *)
(* ------------------------------------------------------------------ *)
C13_NoSendForZeroAnywhere ==
    /\ ExactInRuleTables
    /\ program = "handleCC" =>
         \A i \in 1..Len(hc.sends) : hc.sends[i].val # 0

\* The number of actions of the first n outcomes of a sequence.
RECURSIVE ActionsIn(_, _)
ActionsIn(q, n) ==
    IF n = 0 THEN 0 ELSE ActionsIn(q, n - 1) + Len(q[n].Actions)

\* How many of the attempts up to the i-th were buffered.
BufferedUpTo(i) ==
    LET Ok(a) == a.ok IN Len(SelectSeq(SubSeq(attempts, 1, i), Ok))

(* ------------------------------------------------------------------ *)
(* C14: nothing is deduplicated.  An attempt made with room in the     *)
(* queue is buffered even when an outcome with the same contents was   *)
(* buffered before, the two are separate entries of what the queue     *)
(* holds and hands to the sender, and the sender makes the sends of    *)
(* every outcome it receives: an outcome received twice is sent twice. *)
(* ------------------------------------------------------------------ *)
C14_NoDeduplication ==
    /\ \A j \in 1..Len(attempts) :
         attempts[j].qlen < EventChanCap =>
           /\ attempts[j].ok
           /\ (delivered \o eventChan.buf)[BufferedUpTo(j)] = attempts[j].msg
           /\ \A i \in 1..(j - 1) :
                (attempts[i].ok /\ attempts[i].msg = attempts[j].msg) =>
                  /\ BufferedUpTo(i) < BufferedUpTo(j)
                  /\ (delivered \o eventChan.buf)[BufferedUpTo(i)]
                       = attempts[j].msg
    /\ sendCount = IF delivered = <<>> THEN 0
                   ELSE ActionsIn(delivered, Len(delivered) - 1) + Len(sends)
    /\ (workerPc = "recv" /\ delivered # <<>>) =>
         Len(sends) = Len(delivered[Len(delivered)].Actions)

\* The same matching raw event came twice while the queue was empty: two
\* equal outcomes were buffered and the sender has sent the rule's single
\* action twice.
C14_Witness ==
    /\ processed = << <<176, 27, 127>>, <<176, 27, 127>> >>
    /\ Len(attempts) = 2
    /\ attempts[1].qlen = 0 /\ attempts[2].qlen <= 1
    /\ attempts[1].msg = attempts[2].msg
    /\ delivered = << attempts[1].msg, attempts[2].msg >>
    /\ Len(attempts[1].msg.Actions) = 1
    /\ workerPc = "recv"
    /\ sendCount = 2

(* ------------------------------------------------------------------ *)
(* C15: every queue has exactly one consumer.  What has left eventChan *)
(* is what the sender received, and a line placed on ch is received by *)
(* the debug logger only: main, which owns neither queue, never holds  *)
(* a line taken from ch.                                               *)
(* ------------------------------------------------------------------ *)
C15_OneConsumerPerQueue ==
    /\ delivered \o eventChan.buf = Accepted
    /\ str = <<>>

(* ------------------------------------------------------------------ *)
(* C16: only Control-Change events produce outcomes.  For a raw event  *)
(* whose status byte has an upper nibble other than 0xB process()      *)
(* never reaches the rule loop and makes no enqueue attempt, whatever  *)
(* its payload and whatever the table holds; every outcome queued or   *)
(* handed to the sender comes from an attempt for a Control-Change.    *)
(* ------------------------------------------------------------------ *)
C16_OnlyControlChange ==
    /\ procPc = "rules" => events[ei][1] \div 16 = 11
    /\ \A n \in 1..Len(Seen) :
         Seen[n][1] \div 16 # 11 => AttemptsOf(n) = <<>>
    /\ \A i \in 1..Len(attempts) :
         /\ attempts[i].ev <= Len(Seen)
         /\ Seen[attempts[i].ev][1] \div 16 = 11
    /\ delivered \o eventChan.buf = Accepted

\* A Note-On whose payload (27, 127) equals a rule's cc and value has been
\* handled, and nothing was enqueued for it.
C16_Witness ==
    /\ procPc = "idle"
    /\ \E n \in 1..Len(processed) :
         /\ processed[n] = <<144, 27, 127>>
         /\ AllRulesFor(processed[n]) # <<>>
         /\ AttemptsOf(n) = <<>>
    /\ attempts = <<>>
    /\ eventChan.buf = <<>>

\* What a step of process() at its send on ch must be for the diagnostics
\* channel to stay apart from the dispatch: one select-send on ch that
\* buffers the line when there is room and drops it otherwise, after which
\* process() goes on to the rules exactly when the event is a
\* Control-Change; the step touches neither eventChan nor the attempts,
\* whatever eventChan holds.  orClosed excuses the steps taken on a closed
\* ch.
DiagStep(orClosed) ==
    ProcessDiag =>
      \/ orClosed /\ ch.closed
      \/ /\ panic' = "none"
         /\ ch'.buf = IF Len(ch.buf) < ChCap
                      THEN Append(ch.buf, [goSyntax |-> events[ei]])
                      ELSE ch.buf
         /\ eventChan' = eventChan
         /\ attempts' = attempts
         /\ procPc' = "rules" <=>
              (events[ei][1] \div 16 = 11 /\ cfg[1].Mappings # <<>>)
         /\ procPc' = "rules" => ei' = ei

\* The rule loop is entered only from the send on ch, for the same event,
\* and a step of the rule loop leaves ch alone and makes an attempt exactly
\* when the rule's cc and value equal the event's.
RuleStep ==
    /\ (procPc # "rules" /\ procPc' = "rules") => ProcessDiag
    /\ (procPc = "rules" /\ procPc' = "rules") => ei' = ei
    /\ (procPc = "diag" /\ processed' # processed) => ProcessDiag
    /\ ProcessRule =>
         /\ ch' = ch
         /\ panic' = "none" =>
              (attempts' # attempts <=>
                 /\ cfg[1].Mappings[rj].CC = events[ei][2]
                 /\ cfg[1].Mappings[rj].Value = events[ei][3])

\* While ch is open the diagnostics channel and the dispatch are apart.
DiagIndependentWhileOpen == [][DiagStep(TRUE) /\ RuleStep]_vars

(* ------------------------------------------------------------------ *)
(* C17: the diagnostics channel is independent of the dispatch.  For   *)
(* every raw event process() makes exactly one non-blocking attempt on *)
(* ch, which buffers the line or drops it; whether it was buffered or  *)
(* dropped changes nothing of what is enqueued on eventChan, and a     *)
(* full eventChan does not keep the attempt from being made.           *)
(* ------------------------------------------------------------------ *)
C17_DiagIndependent == [][DiagStep(FALSE) /\ RuleStep]_vars

\* Whenever the callback is registered the configuration is loaded, both
\* channels exist and both consumers have been started; the client is
\* active only with the callback registered, and process() runs only then.
StartedBeforeCallback ==
    /\ callbackSet =>
         /\ cfg # <<>>
         /\ ch.made /\ eventChan.made
         /\ workerPc # "off" /\ loggerPc # "off"
    /\ active => callbackSet
    /\ procPc # "idle" => callbackSet /\ active

\* cfg is written once, by main's load, before the callback is registered;
\* an invocation of process() that found cfg nil would return at once and
\* leave both channels alone.
ConfigWrittenOnce ==
    /\ cfg' # cfg => cfg = <<>> /\ mainPc = "load" /\ ~callbackSet
    /\ (ProcessBegin /\ cfg = <<>>) =>
         procPc' = "idle" /\ ch' = ch /\ eventChan' = eventChan

(* ------------------------------------------------------------------ *)
(* C18: start-up ordering.  The configuration is loaded once and both  *)
(* channels are created and their consumers started before the process *)
(* callback is registered and the client activated: no invocation of   *)
(* process() sees a nil cfg or a channel that was not made, cfg is not *)
(* written after the callback is registered, and with a nil cfg        *)
(* process() enqueues nothing on either channel.                       *)
(* ------------------------------------------------------------------ *)
C18_StartupOrdering ==
    /\ []StartedBeforeCallback
    /\ [][ConfigWrittenOnce]_vars

\* process() is at work on an event: the configuration is there, both
\* channels are made and have taken a value, both consumers run.
C18_Witness ==
    /\ procPc = "rules"
    /\ cfg # <<>>
    /\ ch.made /\ ch.buf # <<>>
    /\ eventChan.made /\ eventChan.buf # <<>>
    /\ workerPc = "recv" /\ loggerPc = "recv"

====
